---------------------------- MODULE Spec2Model ----------------------------
(***************************************************************************)
(* Model of the nvidia-container-cli "configure" command (src/nvc_cli.c):  *)
(* the device selector select_gpu_devices and the workflow of              *)
(* configure_command with its acquisition / cleanup discipline.            *)
(*                                                                         *)
(* C strings are tuples of one-character strings; a char pointer into a    *)
(* buffer is a 1-based offset, 0 standing for the NULL pointer.            *)
(***************************************************************************)
EXTENDS Integers, Sequences, FiniteSets, TLC

(***************************************************************************)
(* Bounds of the model.                                                    *)
(***************************************************************************)
MaxDevices == 2      \* dev->ngpus ranges over 0..MaxDevices
MaxTokens == 2       \* comma-separated tokens of a device spec (selector runs)
MaxCmdTokens == 2    \* tokens of a device spec in the configure workflow runs
MaxReqs == 3         \* ctx->nreqs is 0 or MaxReqs in the workflow runs

(***************************************************************************)
(* Program constants.                                                      *)
(***************************************************************************)
EXIT_SUCCESS == 0
EXIT_FAILURE == 1
NoDev == -1          \* a NULL entry of the gpus[] array

Min(S) == CHOOSE x \in S : \A y \in S : x <= y

(***************************************************************************)
(* libc string functions used by the selector.                             *)
(***************************************************************************)
UpperCase == <<"A","B","C","D","E","F","G","H","I","J","K","L","M",
               "N","O","P","Q","R","S","T","U","V","W","X","Y","Z">>
LowerCase == <<"a","b","c","d","e","f","g","h","i","j","k","l","m",
               "n","o","p","q","r","s","t","u","v","w","x","y","z">>
DigitChars == <<"0","1","2","3","4","5","6","7","8","9">>
NUL == "\\0"

tolower(c) ==
    IF \E k \in DOMAIN UpperCase : UpperCase[k] = c
    THEN LowerCase[CHOOSE k \in DOMAIN UpperCase : UpperCase[k] = c]
    ELSE c

isdigit(c) == \E k \in DOMAIN DigitChars : DigitChars[k] = c
DigitVal(c) == (CHOOSE k \in DOMAIN DigitChars : DigitChars[k] = c) - 1
isspace(c) == c \in {" ", "\t", "\n"}

\* The character at offset p of the C string s (its terminator past the end).
CharAt(s, p) == IF p \in 1..Len(s) THEN s[p] ELSE NUL

\* strlen
strlen(s) == Len(s)

\* strncasecmp(a, b, n) == 0
RECURSIVE CaseEqFrom(_, _, _, _)
CaseEqFrom(a, b, p, n) ==
    IF p > n THEN TRUE
    ELSE IF tolower(CharAt(a, p)) # tolower(CharAt(b, p)) THEN FALSE
    ELSE IF CharAt(a, p) = NUL THEN TRUE
    ELSE CaseEqFrom(a, b, p + 1, n)

strncasecmp_eq(a, b, n) == CaseEqFrom(a, b, 1, n)

\* strcasecmp(a, b) == 0
strcasecmp_eq(a, b) ==
    CaseEqFrom(a, b, 1, (IF Len(a) > Len(b) THEN Len(a) ELSE Len(b)) + 1)

\* strtol(s, &ptr, 10): [n |-> value, ptr |-> offset of the first unparsed char].
\* The digit strings of the model are short, so the ERANGE clamp is not reached.
RECURSIVE SkipSpace(_, _)
SkipSpace(s, p) == IF isspace(CharAt(s, p)) THEN SkipSpace(s, p + 1) ELSE p

RECURSIVE ParseDigits(_, _, _)
ParseDigits(s, p, acc) ==
    IF isdigit(CharAt(s, p))
    THEN ParseDigits(s, p + 1, acc * 10 + DigitVal(CharAt(s, p)))
    ELSE [n |-> acc, ptr |-> p]

strtol(s) ==
    LET p0 == SkipSpace(s, 1)
        neg == CharAt(s, p0) = "-"
        p1 == IF CharAt(s, p0) \in {"-", "+"} THEN p0 + 1 ELSE p0
        r == ParseDigits(s, p1, 0)
    IN IF r.ptr = p1 THEN [n |-> 0, ptr |-> 1]
       ELSE [n |-> IF neg THEN 0 - r.n ELSE r.n, ptr |-> r.ptr]

\* strsep(&devs, ","): devs is an offset into buf (0 = NULL).  The result is
\* the token (or no token) and the new value of devs.
RECURSIVE FindComma(_, _)
FindComma(buf, p) ==
    IF p > Len(buf) THEN 0
    ELSE IF buf[p] = "," THEN p
    ELSE FindComma(buf, p + 1)

strsep(buf, p) ==
    IF p = 0 THEN [none |-> TRUE, tok |-> <<>>, next |-> 0]
    ELSE LET c == FindComma(buf, p)
         IN IF c = 0
            THEN [none |-> FALSE, tok |-> SubSeq(buf, p, Len(buf)), next |-> 0]
            ELSE [none |-> FALSE, tok |-> SubSeq(buf, p, c - 1), next |-> c + 1]

(***************************************************************************)
(* State.                                                                  *)
(***************************************************************************)
VARIABLES
    argp,       \* argp_parse: the options of the command line, the next one to
                \* parse, and the fatal input error if one was raised
    ctx,        \* struct context: devices (NULL or a string), reqs, nreqs,
                \* driver_flags, device_flags
    pc,         \* position of configure_command
    nvc,        \* struct nvc_context *nvc
    cfg,        \* struct nvc_container_config *cfg
    cnt,        \* struct nvc_container *cnt
    drv,        \* struct nvc_driver_info *drv
    dev,        \* struct nvc_device_info *dev
    available,  \* dev->gpus: the UUIDs of the discovered devices, dev->ngpus long
    gpus,       \* const struct nvc_device **gpus, indexed 0..dev->ngpus-1
    reqi,       \* index of the requirement loop
    mi,         \* index of the device mount loop
    rv,         \* int rv
    devs,       \* select_gpu_devices: char *devs as an offset into ctx.devices
    ntok,       \* select_gpu_devices: tokens returned by strsep so far
    selpc,      \* select_gpu_devices: "idle", "loop" or "ret"
    selrv,      \* select_gpu_devices: its return value
    err,        \* struct error err: whether set, and the token it names
    mounts,     \* what has been mounted into the container
    calls       \* the calls made to the collaborators, in order

vars == <<argp, ctx, pc, nvc, cfg, cnt, drv, dev, available, gpus, reqi, mi, rv,
          devs, ntok, selpc, selrv, err, mounts, calls>>

cmdvars == <<pc, nvc, cfg, cnt, drv, dev, reqi, mi, rv, mounts, calls>>
selvars == <<gpus, devs, ntok, selpc, selrv, err>>

NULL == "NULL"

\* One-character-per-element spelling of the strings of the model.
S_empty == <<>>
S_0 == <<"0">>
S_1 == <<"1">>
S_9 == <<"9">>
S_01 == <<"0","1">>
S_m1 == <<"-","1">>
S_1x == <<"1","x">>
S_all == <<"a","l","l">>
S_aLL == <<"a","L","L">>
S_GPU == <<"G","P","U","-">>
S_GPUa == <<"G","P","U","-","a">>
S_gpuA == <<"g","p","u","-","A">>
S_GPUb == <<"G","P","U","-","b">>
S_GPUab == <<"G","P","U","-","a","b">>
S_GPUaa == <<"G","P","U","-","a","a">>
S_GPUAb == <<"G","P","U","-","A","b">>

\* Inputs: tokens, device UUIDs, device specs.
TokSet == {S_empty, S_0, S_1, S_9, S_01, S_m1, S_1x, S_all, S_aLL,
           S_GPUa, S_gpuA, S_GPUab}
CmdTokSet == {S_1, S_all, S_GPUa}
UuidSet == {S_GPUaa, S_GPUAb, S_GPUb}

RECURSIVE Join(_)
Join(ts) ==
    IF Len(ts) = 0 THEN <<>>
    ELSE IF Len(ts) = 1 THEN ts[1]
    ELSE ts[1] \o <<",">> \o Join(Tail(ts))

NoDevices == [isnull |-> TRUE, str |-> <<>>]
NoFlags == <<>>
NoArgs == [argv |-> <<>>, next |-> 1, fatal |-> ""]

\* The contexts with n requirements (the k-th standing for the expression
\* given k-th) and no capability option.
Contexts(devspecs, counts) ==
    {[devices |-> d, reqs |-> [k \in 1..n |-> k], nreqs |-> n,
      driver_flags |-> NoFlags, device_flags |-> NoFlags] :
        d \in devspecs, n \in counts}
DevSpecs(toks, max) ==
    {NoDevices} \cup
    {[isnull |-> FALSE, str |-> Join(ts)] :
        ts \in UNION {[1..n -> toks] : n \in 1..max}}

DeviceLists == UNION {[1..n -> UuidSet] : n \in 0..MaxDevices}
CmdUuidSet == {S_GPUaa, S_GPUb}
CmdDeviceLists == UNION {[1..n -> CmdUuidSet] : n \in 0..MaxDevices}

ngpus == Len(available)
Ordinals == 0..(ngpus - 1)
\* ZeroGpus, without the memset: entries left pointing at devices.
ZeroGpus_unset(n) == [i \in 0..(n - 1) |-> i]

ZeroGpus(n) == [i \in 0..(n - 1) |-> NoDev]

(***************************************************************************)
(* select_gpu_devices                                                      *)
(***************************************************************************)
\* IsAll, with strcmp for strcasecmp.
IsAll_exact(gpu) == gpu = S_all

\* !strcasecmp(gpu, "all")
IsAll(gpu) == strcasecmp_eq(gpu, S_all)

\* IsUuidToken, with strncmp for strncasecmp.
IsUuidToken_exact(gpu) == Len(gpu) >= Len(S_GPU) /\ SubSeq(gpu, 1, Len(S_GPU)) = S_GPU

\* !strncasecmp(gpu, "GPU-", strlen("GPU-"))
IsUuidToken(gpu) == strncasecmp_eq(gpu, S_GPU, strlen(S_GPU))

\* UuidMatches, comparing the whole UUID instead of its first strlen(gpu) chars.
UuidMatches_whole(uuid, gpu) == strcasecmp_eq(uuid, gpu)

\* !strncasecmp(available[i].uuid, gpu, strlen(gpu))
UuidMatches(uuid, gpu) == strncasecmp_eq(uuid, gpu, strlen(gpu))

\* The for loop over the devices: the first ordinal whose UUID matches, or size.
RECURSIVE FirstMatchFrom(_, _, _)
FirstMatchFrom(avail, gpu, i) ==
    IF i >= Len(avail) THEN Len(avail)
    ELSE IF UuidMatches(avail[i + 1], gpu) THEN i
    ELSE FirstMatchFrom(avail, gpu, i + 1)

\* FirstMatch, with the scan not stopped at the first match: the last match.
FirstMatch_last(avail, gpu) ==
    LET M == {i \in 0..(Len(avail) - 1) : UuidMatches(avail[i + 1], gpu)}
    IN IF M = {} THEN Len(avail) ELSE CHOOSE i \in M : \A j \in M : j <= i

FirstMatch(avail, gpu) == FirstMatchFrom(avail, gpu, 0)

\* IndexValid, with n > 0 for n >= 0.
IndexValid_positive(gpu, size) ==
    LET r == strtol(gpu)
    IN CharAt(gpu, r.ptr) = NUL /\ r.n > 0 /\ r.n < size

\* *ptr == '\0' && n >= 0 && (size_t)n < size
IndexValid(gpu, size) ==
    LET r == strtol(gpu)
    IN CharAt(gpu, r.ptr) = NUL /\ r.n >= 0 /\ r.n < size

\* Mark, storing &available[0] whatever the entry.
Mark_other(sel, i) == [sel EXCEPT ![i] = 0]

\* selected[i] = &available[i]
Mark(sel, i) == [sel EXCEPT ![i] = i]

\* for (i = 0; i < size; ++i) selected[i] = &available[i]
MarkAll(sel, size) == [i \in DOMAIN sel |-> IF i < size THEN i ELSE sel[i]]

\* The body of the while loop for one non-empty token: the selection after it
\* and how the iteration ends ("next", "break" or "error").
SelectToken(gpu, sel, avail) ==
    IF IsAll(gpu)
    THEN [sel |-> MarkAll(sel, Len(avail)), exit |-> "break"]
    ELSE IF IsUuidToken(gpu)
    THEN LET i == FirstMatch(avail, gpu)
         IN IF i < Len(avail)
            THEN [sel |-> Mark(sel, i), exit |-> "next"]
            ELSE [sel |-> sel, exit |-> "error"]
    ELSE IF IndexValid(gpu, Len(avail))
    THEN [sel |-> Mark(sel, strtol(gpu).n), exit |-> "next"]
    ELSE [sel |-> sel, exit |-> "error"]

\* One iteration of while ((gpu = strsep(&devs, ",")) != NULL).
SelectStep ==
    /\ selpc = "loop"
    /\ LET t == strsep(ctx.devices.str, devs)
       IN IF t.none
          THEN /\ selpc' = "ret"
               /\ selrv' = 0
               /\ UNCHANGED <<gpus, devs, ntok, err>>
          ELSE /\ devs' = t.next
               /\ ntok' = ntok + 1
               /\ IF t.tok = <<>>
                  THEN UNCHANGED <<gpus, selpc, selrv, err>>
                  ELSE LET r == SelectToken(t.tok, gpus, available)
                       IN /\ gpus' = r.sel
                          /\ selpc' = IF r.exit = "next" THEN "loop" ELSE "ret"
                          /\ selrv' = IF r.exit = "error" THEN -1 ELSE 0
                          /\ err' = IF r.exit = "error"
                                    THEN [set |-> TRUE, tok |-> t.tok]
                                    ELSE err
    /\ UNCHANGED <<argp, ctx, available>>
    /\ UNCHANGED cmdvars

NoError == [set |-> FALSE, tok |-> <<>>]
StartOf(devices) == IF devices.isnull THEN 0 ELSE 1

\* The selector run on its own: any device spec against any device list, with
\* the selection zeroed by the caller.
InitSel ==
    /\ argp = NoArgs
    /\ ctx \in Contexts(DevSpecs(TokSet, MaxTokens), {0})
    /\ available \in DeviceLists
    /\ gpus = ZeroGpus(Len(available))
    /\ devs = StartOf(ctx.devices)
    /\ ntok = 0
    /\ selpc = "loop"
    /\ selrv = 0
    /\ err = NoError
    /\ pc = "select_wait"
    /\ nvc = "nvc" /\ cfg = "cfg" /\ cnt = "cnt" /\ drv = "drv" /\ dev = "dev"
    /\ reqi = 0 /\ mi = 0
    /\ rv = EXIT_FAILURE
    /\ mounts = {}
    /\ calls = <<>>

NextSel == SelectStep

SpecSel == InitSel /\ [][NextSel]_vars

(***************************************************************************)
(* configure_command                                                       *)
(***************************************************************************)
\* A call to a collaborator: the function, the handle it was given or has
\* returned, the requirement or device index it concerns, and whether it
\* succeeded (a release has no result and is recorded as succeeding).
Call(op, h, i, ok) == [op |-> op, h |-> h, i |-> i, ok |-> ok]
\* A call that is also given a flag string.
CallWith(op, h, i, ok, flags) ==
    [op |-> op, h |-> h, i |-> i, ok |-> ok, flags |-> flags]
Log(c) == calls' = Append(calls, c)

selunch == UNCHANGED <<devs, ntok, selpc, selrv, err>>

\* FailLabel, placed after the call of nvc_shutdown.
FailLabel_late == "container_free"

\* fail: the label the error paths jump to.
FailLabel == "shutdown"

\* nvc = nvc_context_new()
ContextNew ==
    /\ pc = "context_new"
    /\ \E h \in {NULL, "nvc"} :
        /\ nvc' = h
        /\ Log(Call("nvc_context_new", h, NoDev, h # NULL))
    /\ pc' = "config_new"
    /\ UNCHANGED <<argp, ctx, cfg, cnt, drv, dev, available, gpus, reqi, mi, rv, mounts>>
    /\ selunch

\* ConfigNew, returning at once on an allocation failure instead of jumping
\* to the cleanup.
ConfigNew_return ==
    /\ pc = "config_new"
    /\ \E h \in {NULL, "cfg"} :
        /\ cfg' = h
        /\ Log(Call("nvc_container_config_new", h, NoDev, h # NULL))
        /\ pc' = IF nvc = NULL \/ h = NULL THEN "done" ELSE "init"
    /\ UNCHANGED <<argp, ctx, nvc, cnt, drv, dev, available, gpus, reqi, mi, rv, mounts>>
    /\ selunch

\* cfg = nvc_container_config_new(...); if (nvc == NULL || cfg == NULL) goto fail
ConfigNew ==
    /\ pc = "config_new"
    /\ \E h \in {NULL, "cfg"} :
        /\ cfg' = h
        /\ Log(Call("nvc_container_config_new", h, NoDev, h # NULL))
        /\ pc' = IF nvc = NULL \/ h = NULL THEN FailLabel ELSE "init"
    /\ UNCHANGED <<argp, ctx, nvc, cnt, drv, dev, available, gpus, reqi, mi, rv, mounts>>
    /\ selunch

\* if (nvc_init(nvc, NULL, ctx->init_flags) < 0) goto fail
LibInit ==
    /\ pc = "init"
    /\ \E ok \in BOOLEAN :
        /\ Log(Call("nvc_init", nvc, NoDev, ok))
        /\ pc' = IF ok THEN "container_new" ELSE FailLabel
    /\ UNCHANGED <<argp, ctx, nvc, cfg, cnt, drv, dev, available, gpus, reqi, mi, rv, mounts>>
    /\ selunch

\* if ((cnt = nvc_container_new(nvc, cfg, ...)) == NULL) goto fail
ContainerNew ==
    /\ pc = "container_new"
    /\ \E h \in {NULL, "cnt"} :
        /\ cnt' = h
        /\ Log(Call("nvc_container_new", h, NoDev, h # NULL))
        /\ pc' = IF h = NULL THEN FailLabel ELSE "driver_info_new"
    /\ UNCHANGED <<argp, ctx, nvc, cfg, drv, dev, available, gpus, reqi, mi, rv, mounts>>
    /\ selunch

\* DriverInfoNew, going on to the device query although the driver query failed.
DriverInfoNew_continue ==
    /\ pc = "driver_info_new"
    /\ \E h \in {NULL, "drv"} :
        /\ drv' = h
        /\ Log(CallWith("nvc_driver_info_new", h, NoDev, h # NULL, ctx.driver_flags))
        /\ pc' = "device_info_new"
    /\ UNCHANGED <<argp, ctx, nvc, cfg, cnt, dev, available, gpus, reqi, mi, rv, mounts>>
    /\ selunch

\* if ((drv = nvc_driver_info_new(nvc, ctx->driver_flags)) == NULL) goto fail
DriverInfoNew ==
    /\ pc = "driver_info_new"
    /\ \E h \in {NULL, "drv"} :
        /\ drv' = h
        /\ Log(CallWith("nvc_driver_info_new", h, NoDev, h # NULL, ctx.driver_flags))
        /\ pc' = IF h = NULL THEN FailLabel ELSE "device_info_new"
    /\ UNCHANGED <<argp, ctx, nvc, cfg, cnt, dev, available, gpus, reqi, mi, rv, mounts>>
    /\ selunch

\* The position after the requirement loop has tested i < ctx->nreqs.
ReqLoopAt(i) == IF i < ctx.nreqs THEN "requirement" ELSE "select"

\* if ((dev = nvc_device_info_new(nvc, ctx->device_flags)) == NULL) goto fail
\* On success dev->gpus and dev->ngpus are what the discovery has found.
DeviceInfoNew ==
    /\ pc = "device_info_new"
    /\ \/ /\ dev' = NULL
          /\ available' = available
          /\ Log(CallWith("nvc_device_info_new", NULL, NoDev, FALSE, ctx.device_flags))
          /\ pc' = FailLabel
       \/ /\ dev' = "dev"
          /\ available' \in CmdDeviceLists
          /\ Log(CallWith("nvc_device_info_new", "dev", NoDev, TRUE, ctx.device_flags))
          /\ pc' = ReqLoopAt(0)
    /\ reqi' = 0
    /\ UNCHANGED <<argp, ctx, nvc, cfg, cnt, drv, gpus, mi, rv, mounts>>
    /\ selunch

\* Requirement, with the loop going on after a failed evaluation.
Requirement_continue ==
    /\ pc = "requirement"
    /\ \E ok \in BOOLEAN :
        /\ Log(Call("dsl_evaluate", drv, reqi, ok))
        /\ pc' = IF reqi + 1 < ctx.nreqs THEN "requirement"
                 ELSE IF ok THEN "select" ELSE "shutdown"
        /\ reqi' = reqi + 1
    /\ UNCHANGED <<argp, ctx, nvc, cfg, cnt, drv, dev, available, gpus, mi, rv, mounts>>
    /\ selunch

\* if (dsl_evaluate(&err, ctx->reqs[i], drv, rules, nitems(rules)) < 0) goto fail
Requirement ==
    /\ pc = "requirement"
    /\ \E ok \in BOOLEAN :
        /\ Log(Call("dsl_evaluate", drv, reqi, ok))
        /\ pc' = IF ok THEN ReqLoopAt(reqi + 1) ELSE FailLabel
        /\ reqi' = IF ok THEN reqi + 1 ELSE reqi
    /\ UNCHANGED <<argp, ctx, nvc, cfg, cnt, drv, dev, available, gpus, mi, rv, mounts>>
    /\ selunch

\* gpus = alloca(...); memset(gpus, 0, ...); the call of select_gpu_devices
SelectCall ==
    /\ pc = "select"
    /\ gpus' = ZeroGpus(ngpus)
    /\ devs' = StartOf(ctx.devices)
    /\ ntok' = 0
    /\ selpc' = "loop"
    /\ pc' = "select_wait"
    /\ UNCHANGED <<argp, ctx, nvc, cfg, cnt, drv, dev, available, reqi, mi, rv, mounts,
                   calls, selrv, err>>

\* SelectReturn, running the selection again when it has failed.
SelectReturn_retry ==
    /\ pc = "select_wait"
    /\ selpc = "ret"
    /\ selpc' = "idle"
    /\ pc' = IF selrv < 0 THEN "select" ELSE "driver_mount"
    /\ UNCHANGED <<argp, ctx, nvc, cfg, cnt, drv, dev, available, gpus, reqi, mi, rv,
                   mounts, calls, devs, ntok, selrv, err>>

\* SelectReturn, with the result of the selector not tested.
SelectReturn_ignore ==
    /\ pc = "select_wait"
    /\ selpc = "ret"
    /\ selpc' = "idle"
    /\ pc' = "driver_mount"
    /\ UNCHANGED <<argp, ctx, nvc, cfg, cnt, drv, dev, available, gpus, reqi, mi, rv,
                   mounts, calls, devs, ntok, selrv, err>>

\* if (select_gpu_devices(...) < 0) goto fail
SelectReturn ==
    /\ pc = "select_wait"
    /\ selpc = "ret"
    /\ selpc' = "idle"
    /\ pc' = IF selrv < 0 THEN FailLabel ELSE "driver_mount"
    /\ UNCHANGED <<argp, ctx, nvc, cfg, cnt, drv, dev, available, gpus, reqi, mi, rv,
                   mounts, calls, devs, ntok, selrv, err>>

\* An entry of the container's mounts: the driver, or the device of an ordinal.
Mounted(what, i) == [what |-> what, i |-> i]

\* NextSelected, without the test gpus[i] != NULL.
NextSelected_noskip(sel, from) == from

\* The device mount loop: the first i >= from with gpus[i] != NULL, or ngpus.
RECURSIVE NextSelected(_, _)
NextSelected(sel, from) ==
    IF from \notin DOMAIN sel THEN from
    ELSE IF sel[from] # NoDev THEN from
    ELSE NextSelected(sel, from + 1)

MountLoopAt(i) == IF i < ngpus THEN "device_mount" ELSE "ldcache_update"

\* if (nvc_driver_mount(nvc, cnt, drv) < 0) goto fail
DriverMount ==
    /\ pc = "driver_mount"
    /\ \E ok \in BOOLEAN :
        /\ Log(Call("nvc_driver_mount", drv, NoDev, ok))
        /\ mounts' = IF ok THEN mounts \cup {Mounted("driver", NoDev)} ELSE mounts
        /\ mi' = IF ok THEN NextSelected(gpus, 0) ELSE mi
        /\ pc' = IF ok THEN MountLoopAt(NextSelected(gpus, 0)) ELSE FailLabel
    /\ UNCHANGED <<argp, ctx, nvc, cfg, cnt, drv, dev, available, gpus, reqi, rv>>
    /\ selunch

\* if (gpus[i] != NULL && nvc_device_mount(nvc, cnt, gpus[i]) < 0) goto fail
DeviceMount ==
    /\ pc = "device_mount"
    /\ \E ok \in BOOLEAN :
        /\ Log(Call("nvc_device_mount", cnt, gpus[mi], ok))
        /\ mounts' = IF ok THEN mounts \cup {Mounted("device", gpus[mi])} ELSE mounts
        /\ mi' = IF ok THEN NextSelected(gpus, mi + 1) ELSE mi
        /\ pc' = IF ok THEN MountLoopAt(NextSelected(gpus, mi + 1)) ELSE FailLabel
    /\ UNCHANGED <<argp, ctx, nvc, cfg, cnt, drv, dev, available, gpus, reqi, rv>>
    /\ selunch

\* LdcacheUpdate, with the result of the update not tested.
LdcacheUpdate_ignore ==
    /\ pc = "ldcache_update"
    /\ \E ok \in BOOLEAN :
        /\ Log(Call("nvc_ldcache_update", cnt, NoDev, ok))
        /\ rv' = EXIT_SUCCESS
    /\ pc' = "shutdown"
    /\ UNCHANGED <<argp, ctx, nvc, cfg, cnt, drv, dev, available, gpus, reqi, mi, mounts>>
    /\ selunch

\* if (nvc_ldcache_update(nvc, cnt) < 0) goto fail; rv = EXIT_SUCCESS
LdcacheUpdate ==
    /\ pc = "ldcache_update"
    /\ \E ok \in BOOLEAN :
        /\ Log(Call("nvc_ldcache_update", cnt, NoDev, ok))
        /\ rv' = IF ok THEN EXIT_SUCCESS ELSE rv
    /\ pc' = FailLabel
    /\ UNCHANGED <<argp, ctx, nvc, cfg, cnt, drv, dev, available, gpus, reqi, mi, mounts>>
    /\ selunch

\* AfterRelease, with the device info released before the container.
AfterRelease_swapped(at) ==
    CASE at = "shutdown" -> "device_info_free"
      [] at = "device_info_free" -> "container_free"
      [] at = "container_free" -> "driver_info_free"
      [] at = "driver_info_free" -> "config_free"
      [] at = "config_free" -> "context_free"
      [] at = "context_free" -> "done"

\* The statement that follows each release call of the cleanup sequence.
AfterRelease(at) ==
    CASE at = "shutdown" -> "container_free"
      [] at = "container_free" -> "device_info_free"
      [] at = "device_info_free" -> "driver_info_free"
      [] at = "driver_info_free" -> "config_free"
      [] at = "config_free" -> "context_free"
      [] at = "context_free" -> "done"

\* One release call of the cleanup sequence.
Release(at, op, h) ==
    /\ pc = at
    /\ Log(Call(op, h, NoDev, TRUE))
    /\ pc' = AfterRelease(at)
    /\ UNCHANGED <<argp, ctx, nvc, cfg, cnt, drv, dev, available, gpus, reqi, mi, rv, mounts>>
    /\ selunch

\* Shutdown, with the mounts undone when the command has failed.
Shutdown_rollback ==
    /\ pc = "shutdown"
    /\ Log(Call("nvc_shutdown", nvc, NoDev, TRUE))
    /\ pc' = "container_free"
    /\ mounts' = IF rv = EXIT_FAILURE THEN {} ELSE mounts
    /\ UNCHANGED <<argp, ctx, nvc, cfg, cnt, drv, dev, available, gpus, reqi, mi, rv>>
    /\ selunch

\* nvc_shutdown(nvc)
Shutdown == Release("shutdown", "nvc_shutdown", nvc)
\* nvc_container_free(cnt)
ContainerFree == Release("container_free", "nvc_container_free", cnt)
\* nvc_device_info_free(dev)
DeviceInfoFree == Release("device_info_free", "nvc_device_info_free", dev)
\* nvc_driver_info_free(drv)
DriverInfoFree == Release("driver_info_free", "nvc_driver_info_free", drv)
\* nvc_container_config_free(cfg)
ConfigFree == Release("config_free", "nvc_container_config_free", cfg)
\* nvc_context_free(nvc); error_reset(&err); return (rv)
ContextFree ==
    /\ pc = "context_free"
    /\ Log(Call("nvc_context_free", nvc, NoDev, TRUE))
    /\ err' = NoError
    /\ pc' = AfterRelease("context_free")
    /\ UNCHANGED <<argp, ctx, nvc, cfg, cnt, drv, dev, available, gpus, reqi, mi, rv, mounts,
                   devs, ntok, selpc, selrv>>

\* The entry of configure_command with the context the argument parser built.
Init ==
    /\ argp = NoArgs
    /\ ctx \in Contexts(DevSpecs(CmdTokSet, MaxCmdTokens), {0, MaxReqs})
    /\ pc = "context_new"
    /\ nvc = NULL /\ cfg = NULL /\ cnt = NULL /\ drv = NULL /\ dev = NULL
    /\ available = <<>>
    /\ gpus = <<>>
    /\ reqi = 0 /\ mi = 0
    /\ rv = EXIT_FAILURE
    /\ devs = 0
    /\ ntok = 0
    /\ selpc = "idle"
    /\ selrv = 0
    /\ err = NoError
    /\ mounts = {}
    /\ calls = <<>>

Next ==
    \/ ContextNew
    \/ ConfigNew
    \/ LibInit
    \/ ContainerNew
    \/ DriverInfoNew
    \/ DeviceInfoNew
    \/ Requirement
    \/ SelectCall
    \/ SelectStep
    \/ SelectReturn
    \/ DriverMount
    \/ DeviceMount
    \/ LdcacheUpdate
    \/ Shutdown
    \/ ContainerFree
    \/ DeviceInfoFree
    \/ DriverInfoFree
    \/ ConfigFree
    \/ ContextFree

Spec == Init /\ [][Next]_vars

(***************************************************************************)
(* main and configure_parser: the options of the configure command are     *)
(* parsed in the order given into the context, and the command runs on     *)
(* it.  The options that write fields the command never reads here (pid,   *)
(* rootfs, container flags) are left out.                                  *)
(***************************************************************************)
ReqsCap == 16
MaxOpts == 2
MaxExtraReqs == 1

OptKeys == {"d", "r", "c", "u", "v", "g", "compat32"}

\* The k-th option of a command line: a requirement option carries the
\* expression given k-th, a device option a device token.
DevArg(k) == IF k % 2 = 1 THEN S_1 ELSE S_GPUa
Option(key, k) == [key |-> key, n |-> k, arg |-> IF key = "d" THEN DevArg(k) ELSE <<>>]
ArgList(keys) == [k \in 1..Len(keys) |-> Option(keys[k], k)]
ArgLists ==
    {ArgList(ks) : ks \in UNION {[1..n -> OptKeys] : n \in 0..MaxOpts}}
    \cup {ArgList([k \in 1..n |-> "r"]) : n \in 0..(ReqsCap + MaxExtraReqs)}

ZeroContext ==
    [devices |-> NoDevices, reqs |-> <<>>, nreqs |-> 0,
     driver_flags |-> NoFlags, device_flags |-> NoFlags]

\* strjoin on the device string: the argument itself when the string is NULL,
\* the string, the separator and the argument otherwise.
strjoin(s, arg, sep) ==
    [isnull |-> FALSE, str |-> IF s.isnull THEN arg ELSE s.str \o sep \o arg]

\* strjoin on a flag string, held as the sequence of its words.
JoinFlag(flags, word) == Append(flags, word)

FlagOf(key) ==
    CASE key = "c" -> "compute"
      [] key = "u" -> "utility"
      [] key = "v" -> "video"
      [] key = "g" -> "graphic"
      [] key = "compat32" -> "compat32"

\* FlagFields, with compat32 joined to the device flags as well.
FlagFields_both(key) ==
    IF key \in {"c", "u", "v", "g", "compat32"}
    THEN {"driver_flags", "device_flags"}
    ELSE {}

\* The flag strings the option of this key is joined to.
FlagFields(key) ==
    IF key \in {"c", "u", "v", "g"} THEN {"driver_flags", "device_flags"}
    ELSE IF key = "compat32" THEN {"driver_flags"}
    ELSE {}

\* TooManyRequirements, testing the count one too late.
TooManyRequirements_late(c) == c.nreqs > ReqsCap

\* ctx->nreqs >= nitems(ctx->reqs)
TooManyRequirements(c) == c.nreqs >= ReqsCap

\* The context after the option o, when nothing fails.
ParseOpt(c, o) ==
    CASE o.key = "d" -> [c EXCEPT !.devices = strjoin(@, o.arg, <<",">>)]
      [] o.key = "r" -> [c EXCEPT !.reqs = Append(@, o.n), !.nreqs = @ + 1]
      [] OTHER ->
            [c EXCEPT
                !.driver_flags =
                    IF "driver_flags" \in FlagFields(o.key)
                    THEN JoinFlag(@, FlagOf(o.key)) ELSE @,
                !.device_flags =
                    IF "device_flags" \in FlagFields(o.key)
                    THEN JoinFlag(@, FlagOf(o.key)) ELSE @]

\* configure_parser on the next option.  A requirement beyond the capacity
\* of the list is fatal, and so is a strjoin that cannot allocate: errx
\* ends the process with EXIT_FAILURE.
ConfigureParser ==
    /\ pc = "parse"
    /\ argp.next <= Len(argp.argv)
    /\ LET o == argp.argv[argp.next] IN
        \E nomem \in IF o.key = "r" THEN {FALSE} ELSE BOOLEAN :
            IF nomem \/ (o.key = "r" /\ TooManyRequirements(ctx))
            THEN /\ argp' = [argp EXCEPT !.fatal =
                                IF nomem THEN "out of memory"
                                ELSE "too many requirements"]
                 /\ pc' = "exit"
                 /\ rv' = EXIT_FAILURE
                 /\ UNCHANGED ctx
            ELSE /\ ctx' = ParseOpt(ctx, o)
                 /\ argp' = [argp EXCEPT !.next = @ + 1]
                 /\ UNCHANGED <<pc, rv>>
    /\ UNCHANGED <<nvc, cfg, cnt, drv, dev, available, gpus, reqi, mi, mounts, calls>>
    /\ selunch

\* argp_parse returns once every option is parsed, and main calls the
\* command.
RunCommand ==
    /\ pc = "parse"
    /\ argp.next > Len(argp.argv)
    /\ pc' = "context_new"
    /\ UNCHANGED <<argp, ctx, nvc, cfg, cnt, drv, dev, available, gpus, reqi, mi, rv, mounts, calls>>
    /\ selunch

InitMain ==
    /\ argp \in {[argv |-> a, next |-> 1, fatal |-> ""] : a \in ArgLists}
    /\ ctx = ZeroContext
    /\ pc = "parse"
    /\ nvc = NULL /\ cfg = NULL /\ cnt = NULL /\ drv = NULL /\ dev = NULL
    /\ available = <<>>
    /\ gpus = <<>>
    /\ reqi = 0 /\ mi = 0
    /\ rv = EXIT_FAILURE
    /\ devs = 0
    /\ ntok = 0
    /\ selpc = "idle"
    /\ selrv = 0
    /\ err = NoError
    /\ mounts = {}
    /\ calls = <<>>

NextMain ==
    \/ ConfigureParser
    \/ RunCommand
    \/ Next

SpecMain == InitMain /\ [][NextMain]_vars

(***************************************************************************)
(* What the properties speak of: the calls made so far.                    *)
(***************************************************************************)
CallIdx == 1..Len(calls)
ReleaseOps == {"nvc_shutdown", "nvc_container_free", "nvc_device_info_free",
               "nvc_driver_info_free", "nvc_container_config_free",
               "nvc_context_free"}
MountOps == {"nvc_driver_mount", "nvc_device_mount", "nvc_ldcache_update"}
AcquireOps == {"nvc_context_new", "nvc_container_config_new", "nvc_init",
               "nvc_container_new", "nvc_driver_info_new", "nvc_device_info_new"}

\* The resources, the call that acquires each and the call that releases it.
Resources == {"context", "config", "library", "container", "driver_info",
              "device_info"}
Handles == Resources \ {"library"}
AcquiredBy(op) ==
    CASE op = "nvc_context_new" -> "context"
      [] op = "nvc_container_config_new" -> "config"
      [] op = "nvc_init" -> "library"
      [] op = "nvc_container_new" -> "container"
      [] op = "nvc_driver_info_new" -> "driver_info"
      [] op = "nvc_device_info_new" -> "device_info"
ReleasedBy(op) ==
    CASE op = "nvc_context_free" -> "context"
      [] op = "nvc_container_config_free" -> "config"
      [] op = "nvc_shutdown" -> "library"
      [] op = "nvc_container_free" -> "container"
      [] op = "nvc_driver_info_free" -> "driver_info"
      [] op = "nvc_device_info_free" -> "device_info"

IsAcquire(c) == c.op \in AcquireOps /\ c.ok
Acquired(r) == \E k \in CallIdx : IsAcquire(calls[k]) /\ AcquiredBy(calls[k].op) = r
\* A release call that releases something: it is given a live handle (for the
\* library: the context of a library that has been initialised).
IsRelease(c) ==
    /\ c.op \in ReleaseOps
    /\ c.h # NULL
    /\ Acquired(ReleasedBy(c.op))
ReleasesOf(r) == {k \in CallIdx : IsRelease(calls[k]) /\ ReleasedBy(calls[k].op) = r}

ResourceOf(c) == IF c.op \in AcquireOps THEN AcquiredBy(c.op) ELSE ReleasedBy(c.op)
NamesOf(cs) == [k \in 1..Len(cs) |-> ResourceOf(cs[k])]
AcquisitionOrder == NamesOf(SelectSeq(calls, IsAcquire))
ReleaseOrder == NamesOf(SelectSeq(calls, IsRelease))
Reverse(sq) == [k \in 1..Len(sq) |-> sq[Len(sq) + 1 - k]]

(***************************************************************************)
(* C1: on every exit of configure_command, whichever phase failed or none, *)
(* each handle that was acquired (context, config, container, driver info, *)
(* device info) has been passed to its release function exactly once, and  *)
(* at no time more than once; a handle never acquired is never released.   *)
(***************************************************************************)
C1_ReleasedExactlyOnce ==
    \A r \in Handles :
        /\ Cardinality(ReleasesOf(r)) <= 1
        /\ pc = "done" =>
              Cardinality(ReleasesOf(r)) = (IF Acquired(r) THEN 1 ELSE 0)

C1_Witness ==
    /\ pc = "done"
    /\ rv = EXIT_FAILURE
    /\ \A r \in Handles : Acquired(r) /\ Cardinality(ReleasesOf(r)) = 1
    /\ \E k \in CallIdx : calls[k].op = "nvc_device_mount" /\ ~calls[k].ok

(***************************************************************************)
(* C2 as stated: on return, the releases of the acquired resources are in  *)
(* the reverse of the order in which they were acquired.                   *)
(***************************************************************************)
C2_ReverseOrder ==
    pc = "done" => ReleaseOrder = Reverse(AcquisitionOrder)

(***************************************************************************)
(* C2 amended: on return, the releases of the acquired resources are in    *)
(* the order library, container, device info, driver info, config,         *)
(* context, whatever the exit path.                                        *)
(***************************************************************************)
CleanupOrder == <<"library", "container", "device_info", "driver_info",
                  "config", "context">>
IsAcquiredName(r) == Acquired(r)

C2_FixedOrder ==
    pc = "done" => ReleaseOrder = SelectSeq(CleanupOrder, IsAcquiredName)

C2_Witness ==
    /\ pc = "done"
    /\ \A r \in Resources : Acquired(r)
    /\ Len(ReleaseOrder) = Cardinality(Resources)

(***************************************************************************)
(* What a device spec denotes: its tokens, and the ordinals a token names. *)
(***************************************************************************)
CommaPos(str) == {p \in 1..Len(str) : str[p] = ","}
RECURSIVE Split(_)
Split(str) ==
    IF CommaPos(str) = {} THEN <<str>>
    ELSE LET p == Min(CommaPos(str))
         IN <<SubSeq(str, 1, p - 1)>> \o Split(SubSeq(str, p + 1, Len(str)))

SpecTokens == IF ctx.devices.isnull THEN <<>> ELSE Split(ctx.devices.str)

LowerStr(t) == [j \in 1..Len(t) |-> tolower(t[j])]
StartsWithCI(u, t) ==
    Len(u) >= Len(t) /\ SubSeq(LowerStr(u), 1, Len(t)) = LowerStr(t)
IsAllTok(t) == LowerStr(t) = S_all
IsUuidTok(t) == StartsWithCI(t, S_GPU)

RECURSIVE Decimal(_)
Decimal(i) ==
    IF i < 10 THEN <<DigitChars[i + 1]>>
    ELSE Decimal(i \div 10) \o <<DigitChars[(i % 10) + 1]>>
IndexNames(i) == {Decimal(i), <<"0">> \o Decimal(i)}

UuidMatchSet(t) == {i \in Ordinals : StartsWithCI(available[i + 1], t)}
Denotes(t) ==
    IF IsAllTok(t) THEN Ordinals
    ELSE IF IsUuidTok(t)
    THEN (IF UuidMatchSet(t) = {} THEN {} ELSE {Min(UuidMatchSet(t))})
    ELSE {i \in Ordinals : t \in IndexNames(i)}
Unresolvable(t) == t # <<>> /\ ~IsAllTok(t) /\ Denotes(t) = {}

\* An unresolvable token stands in the spec before any "all".
HasUnresolvable ==
    \E k \in 1..Len(SpecTokens) :
        /\ Unresolvable(SpecTokens[k])
        /\ \A j \in 1..(k - 1) : ~IsAllTok(SpecTokens[j])

Marked == {i \in DOMAIN gpus : gpus[i] # NoDev}

IsEval(c) == c.op = "dsl_evaluate"
Evals == SelectSeq(calls, IsEval)
IsDeviceMount(c) == c.op = "nvc_device_mount"
DeviceMounts == SelectSeq(calls, IsDeviceMount)
Called(op) == \E k \in CallIdx : calls[k].op = op
Succeeded(op) == \E k \in CallIdx : calls[k].op = op /\ calls[k].ok
Failed(op) == \E k \in CallIdx : calls[k].op = op /\ ~calls[k].ok
RequirementsPassed ==
    Len(Evals) = ctx.nreqs /\ \A j \in 1..Len(Evals) : Evals[j].ok

(***************************************************************************)
(* C3: a privileged operation (driver mount, device mount, ldcache update) *)
(* is invoked only after every supplied requirement has evaluated          *)
(* successfully and the selector has returned success; a spec with an      *)
(* unresolvable token leads to no mount at all, also when earlier tokens   *)
(* of it resolved.                                                         *)
(***************************************************************************)
C3_NoMountBeforeChecks ==
    (\E op \in MountOps : Called(op)) =>
        /\ RequirementsPassed
        /\ selrv = 0
        /\ ~HasUnresolvable

C3_Witness ==
    /\ pc = "done"
    /\ Marked # {}
    /\ HasUnresolvable
    /\ selrv < 0
    /\ \A op \in MountOps : ~Called(op)

(***************************************************************************)
(* C4: the requirements are evaluated one at a time in the order supplied: *)
(* the evaluations made so far are those of requirements 0, 1, 2, ... each *)
(* once; a failing evaluation is the last one, and then the outcome is     *)
(* failure and nothing but the releases follows.                           *)
(***************************************************************************)
C4_RequirementsInOrder ==
    /\ Len(Evals) <= ctx.nreqs
    /\ \A j \in 1..Len(Evals) :
          /\ Evals[j].i = j - 1
          /\ ~Evals[j].ok => j = Len(Evals)
    /\ Failed("dsl_evaluate") =>
          /\ rv = EXIT_FAILURE
          /\ \A k \in CallIdx :
                (IsEval(calls[k]) /\ ~calls[k].ok) => \A m \in (k + 1)..Len(calls) : calls[m].op \in ReleaseOps
    /\ (pc = "done" /\ Acquired("device_info") /\ ~Failed("dsl_evaluate")) =>
          Len(Evals) = ctx.nreqs

C4_Witness ==
    /\ pc = "done"
    /\ ctx.nreqs > Len(Evals)
    /\ Len(Evals) = 2
    /\ Evals[1].ok /\ ~Evals[2].ok

(***************************************************************************)
(* C5: device mounts follow a successful driver mount, are made in         *)
(* strictly ascending ordinal order and only for selected devices; a       *)
(* failed device mount is the last one, no ldcache update follows it and   *)
(* the outcome is failure; when the ldcache update is reached every        *)
(* selected device has been mounted.                                       *)
(***************************************************************************)
C5_DeviceMountOrder ==
    /\ \A j \in 1..Len(DeviceMounts) :
          /\ DeviceMounts[j].i \in Marked
          /\ j > 1 => DeviceMounts[j - 1].i < DeviceMounts[j].i
          /\ ~DeviceMounts[j].ok => j = Len(DeviceMounts)
    /\ Called("nvc_device_mount") => Succeeded("nvc_driver_mount")
    /\ Failed("nvc_device_mount") =>
          /\ ~Called("nvc_ldcache_update")
          /\ rv = EXIT_FAILURE
    /\ Called("nvc_ldcache_update") =>
          {DeviceMounts[j].i : j \in 1..Len(DeviceMounts)} = Marked

C5_Witness ==
    /\ pc = "done"
    /\ Cardinality(Marked) >= 2
    /\ Len(DeviceMounts) = 1
    /\ ~DeviceMounts[1].ok
    /\ DeviceMounts[1].i = Min(Marked)

(***************************************************************************)
(* C6: the status is the success status if and only if every phase has     *)
(* succeeded: the six acquisitions, every requirement, the selection, the  *)
(* driver mount, the mount of every selected device and the ldcache        *)
(* update.  It holds in every state, so the status decided before the      *)
(* cleanup is the one returned, and any failed call yields failure.        *)
(***************************************************************************)
AllPhasesSucceeded ==
    /\ \A op \in AcquireOps : Succeeded(op)
    /\ RequirementsPassed
    /\ selrv = 0
    /\ Succeeded("nvc_driver_mount")
    /\ \A i \in Marked :
          \E j \in 1..Len(DeviceMounts) : DeviceMounts[j].i = i /\ DeviceMounts[j].ok
    /\ Succeeded("nvc_ldcache_update")
    /\ \A k \in CallIdx : calls[k].ok

C6_StatusIffAllPhases ==
    /\ rv \in {EXIT_SUCCESS, EXIT_FAILURE}
    /\ rv = EXIT_SUCCESS <=> AllPhasesSucceeded
    /\ (\E k \in CallIdx : ~calls[k].ok) => rv = EXIT_FAILURE
    /\ (pc = "done" /\ selrv < 0) => rv = EXIT_FAILURE

C6_Witness ==
    /\ pc = "done"
    /\ rv = EXIT_SUCCESS
    /\ ctx.nreqs >= 2
    /\ Cardinality(Marked) >= 2

(***************************************************************************)
(* C7: mounts are never rolled back: at every moment, the cleanup          *)
(* included, the mounts in place are exactly those of the successful mount *)
(* calls made so far, and after a failed driver mount, device mount or     *)
(* ldcache update the only calls made are the releases of the handles.     *)
(***************************************************************************)
MountsMade ==
    {Mounted("driver", NoDev) : k \in {m \in CallIdx :
        calls[m].op = "nvc_driver_mount" /\ calls[m].ok}}
    \cup {Mounted("device", calls[k].i) : k \in {m \in CallIdx :
        calls[m].op = "nvc_device_mount" /\ calls[m].ok}}

C7_NoRollback ==
    /\ mounts = MountsMade
    /\ \A k \in CallIdx :
          (calls[k].op \in MountOps /\ ~calls[k].ok) =>
              \A m \in (k + 1)..Len(calls) : calls[m].op \in ReleaseOps

C7_Witness ==
    /\ pc = "done"
    /\ rv = EXIT_FAILURE
    /\ Cardinality(mounts) = 2
    /\ Failed("nvc_device_mount")

(***************************************************************************)
(* C8: when the spec is made only of index tokens, each naming an ordinal  *)
(* of 0..N-1 (empty tokens aside), the selector returns success and the    *)
(* marked entries are exactly the ordinals named.                          *)
(***************************************************************************)
NonEmptyTokens == {k \in 1..Len(SpecTokens) : SpecTokens[k] # <<>>}
OnlyIndexTokens ==
    /\ ~ctx.devices.isnull
    /\ \A k \in NonEmptyTokens : \E i \in Ordinals : SpecTokens[k] \in IndexNames(i)
NamedOrdinals ==
    {i \in Ordinals : \E k \in NonEmptyTokens : SpecTokens[k] \in IndexNames(i)}

C8_IndexTokensMarkExactly ==
    (selpc = "ret" /\ OnlyIndexTokens) =>
        /\ selrv = 0
        /\ Marked = NamedOrdinals
        /\ \A i \in Marked : gpus[i] = i

C8_Witness ==
    /\ selpc = "ret"
    /\ OnlyIndexTokens
    /\ ngpus >= 2
    /\ Marked = {0, 1}
    /\ S_01 \in {SpecTokens[k] : k \in 1..Len(SpecTokens)}

(***************************************************************************)
(* C9: when the k-th token of the spec is "all" in any letter case and the *)
(* selector reaches it, the selector returns success at once with all N    *)
(* devices marked: no token after it is taken from the spec, whatever it   *)
(* is.                                                                     *)
(***************************************************************************)
C9_AllStopsSelection ==
    \A k \in 1..Len(SpecTokens) :
        (IsAllTok(SpecTokens[k]) /\ ntok >= k) =>
            /\ ntok = k
            /\ selpc = "ret"
            /\ selrv = 0
            /\ ~err.set
            /\ Marked = Ordinals
            /\ \A i \in Ordinals : gpus[i] = i

C9_Witness ==
    /\ selpc = "ret"
    /\ Len(SpecTokens) = 2
    /\ SpecTokens[1] = S_aLL
    /\ Unresolvable(SpecTokens[2])
    /\ ntok = 1
    /\ ngpus = 2
    /\ Marked = {0, 1}

(***************************************************************************)
(* C10: the iteration that takes a token with the prefix "GPU-" (any       *)
(* letter case) marks the lowest ordinal whose UUID starts with the token, *)
(* letter case ignored, and changes no other entry; when no UUID starts    *)
(* with it the selection is unchanged and the selector fails naming the    *)
(* token.  The token is never resolved as an index.                        *)
(***************************************************************************)
C10_UuidStep ==
    (ntok' = ntok + 1 /\ IsUuidTok(SpecTokens[ntok'])) =>
        LET t == SpecTokens[ntok']
            M == UuidMatchSet(t)
        IN IF M # {}
           THEN /\ gpus' = [gpus EXCEPT ![Min(M)] = Min(M)]
                /\ selpc' = "loop"
                /\ err' = err
           ELSE /\ gpus' = gpus
                /\ selpc' = "ret"
                /\ selrv' < 0
                /\ err' = [set |-> TRUE, tok |-> t]

C10_UuidPrefixFirstMatch == [][C10_UuidStep]_vars

C10_Witness ==
    /\ selpc = "ret"
    /\ selrv = 0
    /\ SpecTokens = <<S_gpuA>>
    /\ Cardinality(UuidMatchSet(S_gpuA)) = 2
    /\ Marked = {0}

(***************************************************************************)
(* C11 as stated: when the selector fails, the error names the token that  *)
(* could not be resolved and no entry of the selection is marked.          *)
(***************************************************************************)
ConsumedTokens == {k \in 1..Len(SpecTokens) : k <= ntok}
C11_FailureLeavesNothingMarked ==
    (selpc = "ret" /\ selrv < 0) =>
        /\ err = [set |-> TRUE, tok |-> SpecTokens[ntok]]
        /\ Marked = {}

(***************************************************************************)
(* C11 amended: when the selector fails, the token it stopped at is        *)
(* unresolvable and the error names exactly that token; the failing token  *)
(* marks nothing, and the entries marked by the tokens resolved before it  *)
(* stay marked: the selector does not undo them.                           *)
(***************************************************************************)
C11_FailureNamesToken ==
    (selpc = "ret" /\ selrv < 0) =>
        /\ ntok \in 1..Len(SpecTokens)
        /\ Unresolvable(SpecTokens[ntok])
        /\ err = [set |-> TRUE, tok |-> SpecTokens[ntok]]
        /\ Marked = UNION {Denotes(SpecTokens[k]) : k \in ConsumedTokens \ {ntok}}

C11_Witness ==
    /\ selpc = "ret"
    /\ selrv < 0
    /\ SpecTokens = <<S_GPUa, S_9>>
    /\ err.tok = S_9
    /\ Marked = {0}
    /\ ngpus = 2

(***************************************************************************)
(* C12: for a spec without "all" whose tokens all resolve, the selector    *)
(* succeeds and the selection is the union of what each token denotes      *)
(* taken alone, whatever the order, the repetitions and the empty tokens;  *)
(* when the mounts are made, each device of that union is mounted once.    *)
(***************************************************************************)
AllResolve ==
    /\ ~ctx.devices.isnull
    /\ \A k \in 1..Len(SpecTokens) :
          ~IsAllTok(SpecTokens[k]) /\ ~Unresolvable(SpecTokens[k])
DenotedUnion == UNION {Denotes(SpecTokens[k]) : k \in 1..Len(SpecTokens)}
MountsOf(i) == {j \in 1..Len(DeviceMounts) : DeviceMounts[j].i = i}

SelectorReturned ==
    /\ Acquired("device_info")
    /\ RequirementsPassed
    /\ pc \notin {"requirement", "select", "select_wait"}
C13_NoSpecSelectsNothing ==
    ctx.devices.isnull =>
        /\ ntok = 0
        /\ selrv = 0
        /\ ~err.set
        /\ Marked = {}
        /\ ~Called("nvc_device_mount")
        /\ (SelectorReturned /\ pc # "driver_mount") =>
              Called("nvc_driver_mount")
        /\ (Succeeded("nvc_driver_mount") /\ pc # "ldcache_update") =>
              Called("nvc_ldcache_update")

C13_Witness ==
    /\ ctx.devices.isnull
    /\ pc = "done"
    /\ ngpus = 2
    /\ rv = EXIT_SUCCESS
    /\ mounts = {Mounted("driver", NoDev)}

(***************************************************************************)
(* The command line as the user gave it.                                   *)
(***************************************************************************)
Range(f) == {f[k] : k \in DOMAIN f}

\* The options configure_parser has been given so far, the one it rejected
\* included.
ConsideredOpts ==
    SubSeq(argp.argv, 1, IF pc = "exit" THEN argp.next ELSE argp.next - 1)

IsRequire(o) == o.key = "r"
RequiresIn(opts) ==
    LET R == SelectSeq(opts, IsRequire) IN [k \in 1..Len(R) |-> R[k].n]

DriverCapabilities == {"c", "u", "v", "g", "compat32"}
DeviceCapabilities == {"c", "u", "v", "g"}
CapabilityName(key) ==
    CASE key = "c" -> "compute"
      [] key = "u" -> "utility"
      [] key = "v" -> "video"
      [] key = "g" -> "graphic"
      [] key = "compat32" -> "compat32"
CapabilitiesGiven(keys) ==
    LET IsOne(o) == o.key \in keys
        G == SelectSeq(argp.argv, IsOne)
    IN  [k \in 1..Len(G) |-> CapabilityName(G[k].key)]

IsQuery(op) == {k \in CallIdx : calls[k].op = op}

(***************************************************************************)
(* C14, as stated: the capability flag set passed to nvc_device_info_new   *)
(* is the same as the one passed to nvc_driver_info_new, whatever          *)
(* capability options were given.                                          *)
(***************************************************************************)
C14_SameFlagsForBoth ==
    \A k \in IsQuery("nvc_driver_info_new") :
        \A m \in IsQuery("nvc_device_info_new") :
            Range(calls[m].flags) = Range(calls[k].flags)

(***************************************************************************)
(* C14, amended: nvc_driver_info_new is passed the names of the capability *)
(* options given (compute, utility, video, graphic, compat32) in the order *)
(* given, and nvc_device_info_new the names of the compute, utility, video *)
(* and graphic options given: the device flag set is the driver flag set   *)
(* without compat32.                                                       *)
(***************************************************************************)
C14_DeviceFlagsOmitCompat32 ==
    /\ \A k \in IsQuery("nvc_driver_info_new") :
            calls[k].flags = CapabilitiesGiven(DriverCapabilities)
    /\ \A m \in IsQuery("nvc_device_info_new") :
            /\ calls[m].flags = CapabilitiesGiven(DeviceCapabilities)
            /\ \A k \in IsQuery("nvc_driver_info_new") :
                    Range(calls[m].flags) = Range(calls[k].flags) \ {"compat32"}

C14_Witness ==
    /\ \E k \in IsQuery("nvc_driver_info_new") :
            calls[k].flags = <<"compute", "compat32">>
    /\ \E m \in IsQuery("nvc_device_info_new") :
            calls[m].flags = <<"compute">>
    /\ pc = "done"

(***************************************************************************)
(* C15: the number of stored requirement expressions is always between 0   *)
(* and 16; the stored expressions are the first 16 given, in the order     *)
(* given; a 17th --require is rejected with a fatal input error, nothing   *)
(* is written past the list and configure_command is not reached.          *)
(***************************************************************************)
C15_AtMostSixteenRequirements ==
    LET considered == RequiresIn(ConsideredOpts)
        given == RequiresIn(argp.argv)
        stored == IF Len(considered) <= 16 THEN Len(considered) ELSE 16
    IN  /\ ctx.nreqs \in 0..16
        /\ Len(ctx.reqs) = ctx.nreqs
        /\ ctx.reqs = SubSeq(considered, 1, stored)
        /\ Len(considered) > 16 =>
                /\ pc = "exit"
                /\ argp.fatal = "too many requirements"
                /\ rv = EXIT_FAILURE
        /\ Len(given) > 16 => (pc \in {"parse", "exit"} /\ calls = <<>>)
        /\ pc \notin {"parse", "exit"} => ctx.reqs = given

C15_Witness ==
    /\ pc = "exit"
    /\ argp.fatal = "too many requirements"
    /\ Len(RequiresIn(ConsideredOpts)) = 17
    /\ ctx.nreqs = 16
    /\ ctx.reqs = [k \in 1..16 |-> k]
    /\ calls = <<>>

(***************************************************************************)
(* C16: the calls other than releases are a prefix of the fixed order      *)
(* context new, config new, init, container new, driver info, device info, *)
(* the requirement evaluations, driver mount, the device mounts, ldcache   *)
(* update; after a failed call of phases 1 to 5 nothing of a later phase   *)
(* is invoked, only the releases (a failed context creation is still       *)
(* followed by the config creation of the same phase).                     *)
(***************************************************************************)
IsWork(c) == c.op \notin ReleaseOps
WorkOps == [k \in 1..Len(SelectSeq(calls, IsWork)) |-> SelectSeq(calls, IsWork)[k].op]
Repeat(op, n) == [k \in 1..n |-> op]
FixedOrder ==
    <<"nvc_context_new", "nvc_container_config_new", "nvc_init",
      "nvc_container_new", "nvc_driver_info_new", "nvc_device_info_new">>
    \o Repeat("dsl_evaluate", ctx.nreqs)
    \o <<"nvc_driver_mount">>
    \o Repeat("nvc_device_mount", Cardinality(Marked))
    \o <<"nvc_ldcache_update">>
IsPrefix(a, b) == Len(a) <= Len(b) /\ a = SubSeq(b, 1, Len(a))
PhaseOf(op) ==
    CASE op \in {"nvc_context_new", "nvc_container_config_new"} -> 1
      [] op = "nvc_init" -> 2
      [] op = "nvc_container_new" -> 3
      [] op = "nvc_driver_info_new" -> 4
      [] op = "nvc_device_info_new" -> 5
      [] op = "dsl_evaluate" -> 6
      [] op = "nvc_driver_mount" -> 8
      [] op = "nvc_device_mount" -> 9
      [] op = "nvc_ldcache_update" -> 10

C16_EarlyFailureAborts ==
    /\ IsPrefix(WorkOps, FixedOrder)
    /\ \A k \in CallIdx : \A m \in (k + 1)..Len(calls) :
          /\ (IsWork(calls[m]) /\ ~IsWork(calls[k])) => FALSE
          /\ (calls[k].op \in AcquireOps /\ ~calls[k].ok /\ IsWork(calls[m])) =>
                PhaseOf(calls[m].op) = PhaseOf(calls[k].op)

C16_Witness ==
    /\ pc = "done"
    /\ Failed("nvc_driver_info_new")
    /\ ctx.nreqs > 0
    /\ ~ctx.devices.isnull
    /\ Len(WorkOps) = 5

(***************************************************************************)
(* C17 as stated: when the creation of the context or of the config        *)
(* returns null, no resource has been acquired and the abort releases no   *)
(* live resource.                                                          *)
(***************************************************************************)
Phase1Failed == Failed("nvc_context_new") \/ Failed("nvc_container_config_new")
C17_NothingToRelease ==
    (pc = "done" /\ Phase1Failed) =>
        /\ \A r \in Resources : ~Acquired(r)
        /\ \A k \in CallIdx : ~IsRelease(calls[k])

(***************************************************************************)
(* C17 amended: when phase 1 fails, at most one resource has been          *)
(* acquired, the one of the two creations that succeeded (the context or   *)
(* the config); the abort releases exactly that one, once, and nothing     *)
(* else; only when both creations return null is there nothing to release. *)
(***************************************************************************)
C17_Phase1ReleasesTheOneAcquired ==
    (pc = "done" /\ Phase1Failed) =>
        /\ {r \in Resources : Acquired(r)} \in {{}, {"context"}, {"config"}}
        /\ \A r \in Resources :
              Cardinality(ReleasesOf(r)) = (IF Acquired(r) THEN 1 ELSE 0)
        /\ Acquired("context") <=> Failed("nvc_container_config_new")
                                   /\ ~Failed("nvc_context_new")
        /\ Len(WorkOps) = 2

C17_Witness ==
    /\ pc = "done"
    /\ Failed("nvc_container_config_new")
    /\ Acquired("context")
    /\ ReleaseOrder = <<"context">>

(***************************************************************************)
(* C18: during and after the selector every entry i of the selection,      *)
(* 0 <= i < N, is unselected or refers to the device of ordinal i; the     *)
(* selection has the entries 0..N-1 and no other; an entry once marked     *)
(* stays marked.                                                           *)
(***************************************************************************)
C18_EntriesInBounds ==
    /\ DOMAIN gpus = Ordinals
    /\ \A i \in DOMAIN gpus : gpus[i] \in {NoDev, i}
C18_StaysMarked ==
    /\ DOMAIN gpus' = DOMAIN gpus
    /\ \A i \in DOMAIN gpus : gpus[i] # NoDev => gpus'[i] = gpus[i]

C18_SelectionWellFormed == []C18_EntriesInBounds /\ [][C18_StaysMarked]_vars

C18_Witness ==
    /\ selpc = "ret"
    /\ ngpus = 2
    /\ Marked = {1}
    /\ ntok = 2

(***************************************************************************)
(* C19: on every exit path the cleanup makes the same six release calls,   *)
(* once each, as the last calls and in the order shutdown, container free, *)
(* device info free, driver info free, config free, context free; each is  *)
(* given the handle of its resource, which is NULL when the resource was   *)
(* never acquired; shutdown is called whether or not the library was       *)
(* initialised, also with a NULL context.                                  *)
(***************************************************************************)
IsReleaseCall(c) == c.op \in ReleaseOps
ReleaseCalls == SelectSeq(calls, IsReleaseCall)
CleanupCalls ==
    <<Call("nvc_shutdown", nvc, NoDev, TRUE),
      Call("nvc_container_free", cnt, NoDev, TRUE),
      Call("nvc_device_info_free", dev, NoDev, TRUE),
      Call("nvc_driver_info_free", drv, NoDev, TRUE),
      Call("nvc_container_config_free", cfg, NoDev, TRUE),
      Call("nvc_context_free", nvc, NoDev, TRUE)>>

C19_SixReleasesAlways ==
    /\ IsPrefix(ReleaseCalls, CleanupCalls)
    /\ pc = "done" =>
          /\ ReleaseCalls = CleanupCalls
          /\ SubSeq(calls, Len(calls) - 5, Len(calls)) = CleanupCalls
    /\ nvc = NULL <=> ~Acquired("context")
    /\ cfg = NULL <=> ~Acquired("config")
    /\ cnt = NULL <=> ~Acquired("container")
    /\ drv = NULL <=> ~Acquired("driver_info")
    /\ dev = NULL <=> ~Acquired("device_info")

C19_Witness ==
    /\ pc = "done"
    /\ nvc = NULL
    /\ ~Called("nvc_init")
    /\ ReleaseCalls[1] = Call("nvc_shutdown", NULL, NoDev, TRUE)
    /\ cfg # NULL

(***************************************************************************)
(* C20: every run of configure_command reaches the end of the cleanup and  *)
(* returns; each iteration of the selector takes one token of the spec or  *)
(* returns, and no position of the command is entered twice except the     *)
(* loops over the requirements and the devices, whose index grows.         *)
(***************************************************************************)
PosOf(p) ==
    CASE p = "parse" -> 0
      [] p = "context_new" -> 1 [] p = "config_new" -> 2 [] p = "init" -> 3
      [] p = "container_new" -> 4 [] p = "driver_info_new" -> 5
      [] p = "device_info_new" -> 6 [] p = "requirement" -> 7 [] p = "select" -> 8
      [] p = "select_wait" -> 9 [] p = "driver_mount" -> 10
      [] p = "device_mount" -> 11 [] p = "ldcache_update" -> 12
      [] p = "shutdown" -> 13 [] p = "container_free" -> 14
      [] p = "device_info_free" -> 15 [] p = "driver_info_free" -> 16
      [] p = "config_free" -> 17 [] p = "context_free" -> 18 [] p = "done" -> 19
C20_Progress ==
    \/ PosOf(pc') > PosOf(pc)
    \/ pc' = pc /\ pc = "requirement" /\ reqi' = reqi + 1 /\ reqi' <= ctx.nreqs
    \/ pc' = pc /\ pc = "device_mount" /\ mi' > mi /\ mi' < ngpus
    \/ pc' = pc /\ pc = "select_wait" /\ selpc = "loop" /\
          \/ selpc' = "ret" /\ ntok' \in {ntok, ntok + 1}
          \/ selpc' = "loop" /\ ntok' = ntok + 1 /\ ntok' <= Len(SpecTokens)

LiveTokSet == {S_1, S_GPUa}
InitLive ==
    /\ Init
    /\ ctx \in Contexts(DevSpecs(LiveTokSet, MaxCmdTokens), {MaxReqs})

\* The command runs on: every call returns, so a step that can be taken is taken.
SpecLive == InitLive /\ [][Next]_vars /\ WF_vars(Next)

=============================================================================
